---- MODULE Spec2Model ----
(***************************************************************************)
(* Stem-separation pipeline of main.py: the Input Normalizer               *)
(* (slugify_basename), the Output Locator (second half of run_demucs), the *)
(* Stem Mapper (find_stems) and the request handlers (api_separate,        *)
(* gradio_workflow) around separate_core, with their temporary             *)
(* directories.                                                            *)
(***************************************************************************)
EXTENDS Integers, Sequences, FiniteSets, TLC

VARIABLES
    \* ---- Input Normalizer ----
    slugPc,      \* "call" before slugify_basename ran, "ret" after
    slugName,    \* the filename handed to slugify_basename
    slugOut,     \* its return value
    \* ---- Output Locator ----
    locPc,       \* "call" before the locating part of run_demucs ran, "ret" after
    locTree,     \* what the external tool left under out_root
    locModel,    \* model_name
    locOut,      \* the outcome: the resolved model_dir and the directory or error
    \* ---- Stem Mapper ----
    stemPc,      \* "call", "matched" after the name-matching loop, "ret" at return
    stemWavs,    \* wavs = list(stems_dir.glob("*.wav")), in the order glob gave
    stemMatched, \* paths as the name-matching loop left it
    stemPaths,   \* paths
    \* ---- request handlers around separate_core ----
    pc,          \* where each request stands
    req,         \* each request's caller and form fields
    tmp_in_dir,  \* api_separate's local tmp_in_dir
    workdir,     \* the caller's local workdir (None until separate_core returns)
    core,        \* what the request's separate_core call did so far
    outcome,     \* what the caller answered
    disk,        \* the temporary directories that exist, with their content
    returned,    \* the paths the caller handed back (stems and archive)
    nextId,      \* the next name mkdtemp hands out
    \* ---- Cleanup (safe_rmtree) ----
    rmDisk,      \* the directory trees that exist; a locked tree cannot be removed
    rmCalls,     \* how many safe_rmtree calls were made
    rmPath,      \* the path the last call was given
    rmBefore,    \* the trees that existed when the last call began
    rmRaised,    \* the exception the last call let escape, "none" if it returned
    rmRemoved    \* the paths whose tree a call before the last one removed

slugVars == <<slugPc, slugName, slugOut>>
locVars == <<locPc, locTree, locModel, locOut>>
stemVars == <<stemPc, stemWavs, stemMatched, stemPaths>>
pipeVars == <<pc, req, tmp_in_dir, workdir, core, outcome, disk, returned, nextId>>
rmVars == <<rmDisk, rmCalls, rmPath, rmBefore, rmRaised, rmRemoved>>
vars == <<slugVars, locVars, stemVars, pipeVars, rmVars>>

(***************************************************************************)
(* Characters.  A string is a sequence of one-character tokens; the        *)
(* alphabet has one representative per class the regular expressions of    *)
(* slugify_basename tell apart.  "eacute" and "Eacute" stand for the       *)
(* non-ASCII letters U+00E9 and U+00C9.                                    *)
(***************************************************************************)
AsciiLower == {"a"}
AsciiUpper == {"B"}
AsciiDigit == {"7"}
NonAsciiLower == {"eacute"}
NonAsciiUpper == {"Eacute"}
Whitespace == {" "}
Punctuation == {"!"}
Chars == AsciiLower \cup AsciiUpper \cup AsciiDigit \cup NonAsciiLower
         \cup NonAsciiUpper \cup Whitespace \cup Punctuation
         \cup {"_", "-", ".", "/"}

\* Longest filename drawn.
MaxNameLen == 3

Filenames == UNION {[1..n -> Chars] : n \in 0..MaxNameLen}

\* str.lower() on one character.
LowerChar(c) ==
    CASE c = "B" -> "b"
      [] c = "Eacute" -> "eacute"
      [] OTHER -> c

\* Python 3 str patterns: \w is any Unicode word character, not only ASCII.
IsWordChar(c) ==
    c \in AsciiLower \cup AsciiUpper \cup AsciiDigit \cup {"b", "_"}
          \cup NonAsciiLower \cup NonAsciiUpper

IsSpaceChar(c) == c \in Whitespace

\* Index of the last occurrence of c in s, 0 when there is none.
LastIndexOf(s, c) ==
    LET hits == {i \in 1..Len(s) : s[i] = c}
    IN  IF hits = {} THEN 0 ELSE CHOOSE i \in hits : \A j \in hits : j <= i

RECURSIVE DropTrailing(_, _)
DropTrailing(s, drop) ==
    IF s # <<>> /\ s[Len(s)] \in drop
    THEN DropTrailing(SubSeq(s, 1, Len(s) - 1), drop)
    ELSE s

RECURSIVE DropLeading(_, _)
DropLeading(s, drop) ==
    IF s # <<>> /\ s[1] \in drop THEN DropLeading(Tail(s), drop) ELSE s

\* The components of a path: split on "/", empty and "." components dropped.
RECURSIVE PathParts(_)
PathParts(s) ==
    LET i == LastIndexOf(s, "/")
        last == SubSeq(s, i + 1, Len(s))
        keep == IF last = <<>> \/ last = <<".">> THEN <<>> ELSE <<last>>
    IN  IF i = 0 THEN keep ELSE PathParts(SubSeq(s, 1, i - 1)) \o keep

\* Path(name).name: the final component, "" when there is none.
PathName(s) ==
    LET parts == PathParts(s)
    IN  IF parts = <<>> THEN <<>> ELSE parts[Len(parts)]

\* Path(name).stem: the final component minus its last suffix; the dot
\* counts as a suffix separator only strictly inside the name.
PathStem(s) ==
    LET name == PathName(s)
        i == LastIndexOf(name, ".")
    IN  IF 1 < i /\ i < Len(name) THEN SubSeq(name, 1, i - 1) ELSE name

LowerStr(s) == [i \in 1..Len(s) |-> LowerChar(s[i])]

\* re.sub(r"[^\w\s-]", "", base)
RECURSIVE StripNonWord(_)
StripNonWord(s) ==
    IF s = <<>> THEN <<>>
    ELSE IF IsWordChar(s[1]) \/ IsSpaceChar(s[1]) \/ s[1] = "-"
         THEN <<s[1]>> \o StripNonWord(Tail(s))
         ELSE StripNonWord(Tail(s))

\* re.sub(r"[-\s]+", "-", base)
RECURSIVE CollapseSeparators(_)
CollapseSeparators(s) ==
    IF s = <<>> THEN <<>>
    ELSE IF s[1] = "-" \/ IsSpaceChar(s[1])
         THEN <<"-">> \o CollapseSeparators(DropLeading(s, {"-"} \cup Whitespace))
         ELSE <<s[1]>> \o CollapseSeparators(Tail(s))

\* .strip("-_")
StripEnds(s) == DropTrailing(DropLeading(s, {"-", "_"}), {"-", "_"})

\* The value of base before "or default".
SlugBase(name) ==
    StripEnds(CollapseSeparators(StripNonWord(LowerStr(PathStem(name)))))

DefaultSlug == <<"i", "n", "p", "u", "t">>

slugify_basename(name) ==
    IF SlugBase(name) = <<>> THEN DefaultSlug ELSE SlugBase(name)

SlugInit ==
    /\ slugPc = "call"
    /\ slugName \in Filenames
    /\ slugOut = <<>>

SlugIdle ==
    /\ slugPc = "off"
    /\ slugName = <<>>
    /\ slugOut = <<>>

Slugify ==
    /\ slugPc = "call"
    /\ slugOut' = slugify_basename(slugName)
    /\ slugPc' = "ret"
    /\ UNCHANGED slugName

(***************************************************************************)
(* Output Locator: run_demucs after the external tool returned.  A         *)
(* directory is its path below out_root (out_root itself is <<>>); a tree  *)
(* is the set of directories below out_root and the set of directories     *)
(* (out_root included) that directly hold an entry matching *.wav.         *)
(***************************************************************************)
DEMUCS_MODELS == {"htdemucs", "htdemucs_ft", "mdx", "mdx_extra"}

OutRoot == <<>>
TopNames == {"htdemucs", "alt"}
TrackNames == {"track1", "track2"}
DeepNames == {"sub"}

AllDirs ==
    {<<a>> : a \in TopNames}
    \cup {<<a, b>> : a \in TopNames, b \in TrackNames}
    \cup {<<a, b, c>> : a \in TopNames, b \in TrackNames, c \in DeepNames}

\* Most directories the external tool leaves below out_root.
MaxTreeDirs == 4

ParentOf(p) == SubSeq(p, 1, Len(p) - 1)

DirSets ==
    {D \in SUBSET AllDirs :
        /\ Cardinality(D) <= MaxTreeDirs
        /\ \A p \in D : Len(p) > 1 => ParentOf(p) \in D}

Trees ==
    UNION {{[dirs |-> D, wavs |-> W] : W \in SUBSET (D \cup {OutRoot})} : D \in DirSets}

\* Every order in which iterdir() may list the set S.
IterOrders(S) ==
    {o \in [1..Cardinality(S) -> S] : \A x \in S : \E i \in DOMAIN o : o[i] = x}

\* [p for p in d.iterdir() if p.is_dir()], as a set
SubDirs(t, d) == {p \in t.dirs : Len(p) = Len(d) + 1 /\ ParentOf(p) = d}

\* list(d.glob("*.wav")) is not empty
HasWav(t, d) == d \in t.wavs

IsPrefix(d, p) == Len(d) <= Len(p) /\ SubSeq(p, 1, Len(d)) = d

\* The parents of the matches of d.rglob("*.wav")
RglobParents(t, d) == {p \in t.wavs : IsPrefix(d, p)}

Found(md, d) == [resolved |-> TRUE, modelDir |-> md, err |-> "none", dir |-> d]
NotFound(md) == [resolved |-> TRUE, modelDir |-> md, err |-> "OutputNotFound", dir |-> OutRoot]
NoOutput == [resolved |-> FALSE, modelDir |-> OutRoot, err |-> "OutputNotFound", dir |-> OutRoot]

\* The first element of the listing o that holds a *.wav entry, as a set
\* (empty when there is none).
FirstWithWav(t, o) ==
    LET hits == {i \in DOMAIN o : HasWav(t, o[i])}
    IN  IF hits = {} THEN {} ELSE {o[CHOOSE i \in hits : \A j \in hits : i <= j]}

\* ResolveModelDir without the out_root/<model> test: always the first
\* listed subdirectory.
ResolveFirstListed(t, model, o) == IF o = <<>> THEN {} ELSE {o[1]}

\* Lines 90-95 under the listing o of out_root: out_root/<model> when it
\* exists, else the first listed subdirectory; empty when there is none.
ResolveModelDir(t, model, o) ==
    IF <<model>> \in t.dirs THEN {<<model>>}
    ELSE IF o = <<>> THEN {}
    ELSE {o[1]}

\* LocateIn with the model_dir test ahead of the loop over its subdirectories.
LocateInModelDirFirst(t, md, o) ==
    IF HasWav(t, md) THEN {Found(md, md)}
    ELSE IF FirstWithWav(t, o) # {} THEN {Found(md, c) : c \in FirstWithWav(t, o)}
    ELSE IF RglobParents(t, md) # {} THEN {Found(md, p) : p \in RglobParents(t, md)}
    ELSE {NotFound(md)}

\* LocateIn returning model_dir without looking for .wav files.
LocateInNoWavTest(t, md, o) == {Found(md, md)}

\* Lines 97-108 for the resolved model_dir md, under the listing o of its
\* subdirectories.
LocateIn(t, md, o) ==
    IF FirstWithWav(t, o) # {} THEN {Found(md, c) : c \in FirstWithWav(t, o)}
    ELSE IF HasWav(t, md) THEN {Found(md, md)}
    ELSE IF RglobParents(t, md) # {} THEN {Found(md, p) : p \in RglobParents(t, md)}
    ELSE {NotFound(md)}

\* The outcomes under the listing o of out_root.
LocateUnder(t, model, o) ==
    IF ResolveModelDir(t, model, o) = {} THEN {NoOutput}
    ELSE UNION {UNION {LocateIn(t, md, c) : c \in IterOrders(SubDirs(t, md))} :
                    md \in ResolveModelDir(t, model, o)}

\* Every outcome of the locating part of run_demucs on tree t.
LocateOutcomes(t, model) ==
    UNION {LocateUnder(t, model, o) : o \in IterOrders(SubDirs(t, OutRoot))}

LocInit ==
    /\ locPc = "call"
    /\ locTree \in Trees
    /\ locModel \in DEMUCS_MODELS
    /\ locOut = NoOutput

LocIdle ==
    /\ locPc = "off"
    /\ locTree = [dirs |-> {}, wavs |-> {}]
    /\ locModel = "htdemucs"
    /\ locOut = NoOutput

LocateOutput ==
    /\ locPc = "call"
    /\ locOut' \in LocateOutcomes(locTree, locModel)
    /\ locPc' = "ret"
    /\ UNCHANGED <<locTree, locModel>>

(***************************************************************************)
(* Stem Mapper: find_stems.  A file is named by the words of its base      *)
(* name (joined by "_" on disk, ".wav" appended), so that a canonical key  *)
(* is a substring of the lowercased name exactly when it is one of its     *)
(* lowercased words.  The absent path None is the empty name.              *)
(***************************************************************************)
STEM_KEYS == <<"vocals", "drums", "bass", "other">>
StemKeySet == {STEM_KEYS[i] : i \in DOMAIN STEM_KEYS}

NoStem == <<>>

StemNames ==
    {<<"vocals">>, <<"Drums">>, <<"bass">>, <<"vocals", "drums">>,
     <<"voice">>, <<"percussion">>, <<"a">>, <<"b">>, <<"c">>}

\* Most *.wav files in the stems directory.
MaxWavs == 5

\* The listings glob may give: no file twice.
WavListings ==
    UNION {{w \in [1..n -> StemNames] : \A i, j \in 1..n : w[i] = w[j] => i = j} :
              n \in 0..MaxWavs}

LowerWord(w) == IF w = "Drums" THEN "drums" ELSE w

\* key in w.stem.lower()
KeyInName(key, name) == \E i \in DOMAIN name : LowerWord(name[i]) = key

\* Position of a word in the code-point order of the spellings.
WordRank(w) ==
    CASE w = "Drums" -> 1
      [] w = "a" -> 2
      [] w = "b" -> 3
      [] w = "bass" -> 4
      [] w = "c" -> 5
      [] w = "drums" -> 6
      [] w = "percussion" -> 7
      [] w = "vocals" -> 8
      [] w = "voice" -> 9

\* a < b as paths of one directory: the names compared as strings.
RECURSIVE NameLess(_, _)
NameLess(a, b) ==
    IF a = <<>> THEN b # <<>>
    ELSE IF b = <<>> THEN FALSE
    ELSE IF a[1] = b[1] THEN NameLess(Tail(a), Tail(b))
    ELSE WordRank(a[1]) < WordRank(b[1])

\* sorted(wavs), by insertion
RECURSIVE InsertSorted(_, _)
InsertSorted(x, sorted) ==
    IF sorted = <<>> THEN <<x>>
    ELSE IF NameLess(x, sorted[1]) THEN <<x>> \o sorted
    ELSE <<sorted[1]>> \o InsertSorted(x, Tail(sorted))

RECURSIVE SortNames(_)
SortNames(ws) ==
    IF ws = <<>> THEN <<>> ELSE InsertSorted(ws[1], SortNames(Tail(ws)))

EmptyPaths == [k \in StemKeySet |-> NoStem]

\* AssignMatches with a break after the first key found.
AssignFirstMatch(paths, w) ==
    LET hits == {i \in DOMAIN STEM_KEYS : KeyInName(STEM_KEYS[i], w)}
        first == CHOOSE i \in hits : \A j \in hits : i <= j
    IN  IF hits = {} THEN paths ELSE [paths EXCEPT ![STEM_KEYS[first]] = w]

\* Lines 57-59 for one file w: every key found in the name takes w.
AssignMatches(paths, w) ==
    [k \in StemKeySet |-> IF KeyInName(k, w) THEN w ELSE paths[k]]

\* Lines 55-59: the loop over wavs in listing order.
RECURSIVE NamePass(_, _)
NamePass(paths, ws) ==
    IF ws = <<>> THEN paths ELSE NamePass(AssignMatches(paths, ws[1]), Tail(ws))

\* UseOrdinal with "not all" in place of "not any".
UseOrdinalAnyMissing(paths, ws) ==
    (\E k \in StemKeySet : paths[k] = NoStem) /\ ws # <<>>

\* Line 61: not any(paths.values()) and wavs
UseOrdinal(paths, ws) == (\A k \in StemKeySet : paths[k] = NoStem) /\ ws # <<>>

\* Lines 61-65
OrdinalPass(paths, ws) ==
    IF UseOrdinal(paths, ws)
    THEN [k \in StemKeySet |->
            LET i == CHOOSE j \in DOMAIN STEM_KEYS : STEM_KEYS[j] = k
            IN  IF i <= Len(ws) THEN SortNames(ws)[i] ELSE paths[k]]
    ELSE paths

find_stems(ws) == OrdinalPass(NamePass(EmptyPaths, ws), ws)

StemInit ==
    /\ stemPc = "call"
    /\ stemWavs \in WavListings
    /\ stemMatched = EmptyPaths
    /\ stemPaths = EmptyPaths

StemIdle ==
    /\ stemPc = "off"
    /\ stemWavs = <<>>
    /\ stemMatched = EmptyPaths
    /\ stemPaths = EmptyPaths

StemNameMatch ==
    /\ stemPc = "call"
    /\ stemPaths' = NamePass(EmptyPaths, stemWavs)
    /\ stemMatched' = stemPaths'
    /\ stemPc' = "matched"
    /\ UNCHANGED stemWavs

StemReturn ==
    /\ stemPc = "matched"
    /\ stemPaths' = OrdinalPass(stemPaths, stemWavs)
    /\ stemPc' = "ret"
    /\ UNCHANGED <<stemWavs, stemMatched>>

(***************************************************************************)
(* The Stem Mapper called on what the Output Locator returned, as          *)
(* gradio_workflow does (lines 276-277).                                   *)
(***************************************************************************)
\* Most .wav files in one directory of the tree.
MaxDirWavs == 1

\* list(d.glob("*.wav")) for a directory d of tree t: some files, in any
\* order, when d holds .wav files, none otherwise.
DirListings(t, d) ==
    IF HasWav(t, d)
    THEN UNION {{ws \in [1..n -> StemNames] :
                    \A i, j \in 1..n : ws[i] = ws[j] => i = j} : n \in 1..MaxDirWavs}
    ELSE {<<>>}

LocMapInit ==
    /\ LocInit
    /\ stemPc = "wait"
    /\ stemWavs = <<>>
    /\ stemMatched = EmptyPaths
    /\ stemPaths = EmptyPaths

\* Line 277: stems = find_stems(stems_dir) on the directory run_demucs
\* returned.
MapLocated ==
    /\ locPc = "ret"
    /\ locOut.err = "none"
    /\ stemPc = "wait"
    /\ \E ws \in DirListings(locTree, locOut.dir) :
          /\ stemWavs' = ws
          /\ stemMatched' = NamePass(EmptyPaths, ws)
          /\ stemPaths' = find_stems(ws)
    /\ stemPc' = "ret"
    /\ UNCHANGED locVars

(***************************************************************************)
(* The request handlers.  Each request is one call of api_separate or of   *)
(* gradio_workflow; calls run concurrently (worker threads) over one       *)
(* temporary-file area.  mkdtemp returns a name that does not exist yet:   *)
(* names are numbered in the order they are handed out.                    *)
(***************************************************************************)
\* Requests in flight at once.
NReq == 2
Requests == 1..NReq

None == 0

Models == DEMUCS_MODELS \cup {"not-a-model"}

NoRequest == [kind |-> "none", model |-> "htdemucs", use_gpu |-> FALSE]

CoreIdle ==
    [state |-> "notcalled", ffmpeg |-> FALSE, created |-> None, copied |-> FALSE,
     spawned |-> 0, cmd |-> <<>>, inspected |-> FALSE, err |-> "none",
     stems |-> OutRoot, ret |-> <<>>]

\* An out_root the external tool wrote nothing under.
NoTree == [dirs |-> {}, wavs |-> {}]

\* A fresh api_in_ directory holding the uploaded bytes (lines 161-167).
UploadDir ==
    [prefix |-> "api_in_", input |-> TRUE, archive |-> FALSE, stems |-> OutRoot,
     tree |-> NoTree]

\* A fresh demucs_work_ directory with uploads/ and separated/ (lines 121-125).
WorkArea ==
    [prefix |-> "demucs_work_", input |-> FALSE, archive |-> FALSE, stems |-> OutRoot,
     tree |-> NoTree]

\* What the external tool may leave under out_root when it exits with 0.
DemucsLayouts(model) ==
    {[dirs |-> {<<model>>, <<model, "track1">>}, wavs |-> {<<model, "track1">>}],
     [dirs |-> {<<model>>}, wavs |-> {<<model>>}],
     [dirs |-> {<<"alt">>, <<"alt", "track1">>}, wavs |-> {<<"alt", "track1">>}],
     [dirs |-> {<<model>>, <<model, "track1">>}, wavs |-> {}],
     [dirs |-> {}, wavs |-> {}]}

\* safe_rmtree leaving the tree in place.
RmtreeKeepsTree(d, path) == d

\* safe_rmtree(path): the tree is gone afterwards; a missing path is no error.
safe_rmtree(d, path) == [x \in DOMAIN d \ {path} |-> d[x]]

\* tempfile.mkdtemp: a new directory under a name not in use.
Mkdtemp(d, content) == (nextId :> content) @@ d

\* The exception class separate_core raises for each failure.
ExceptionClass(err) ==
    CASE err = "InvalidModel" -> "ValueError"
      [] err = "CopyFailure" -> "OSError"
      [] OTHER -> "RuntimeError"

\* Lines 160-167: the upload is written to a fresh api_in_ directory.
ApiBegin(r) ==
    /\ pc[r] = "idle"
    /\ \E m \in Models, g \in BOOLEAN :
          req' = [req EXCEPT ![r] = [kind |-> "api", model |-> m, use_gpu |-> g]]
    /\ tmp_in_dir' = [tmp_in_dir EXCEPT ![r] = nextId]
    /\ disk' = Mkdtemp(disk, UploadDir)
    /\ nextId' = nextId + 1
    /\ core' = [core EXCEPT ![r].state = "running"]
    /\ pc' = [pc EXCEPT ![r] = "core"]
    /\ UNCHANGED <<workdir, outcome, returned>>

\* Lines 271-274: without an audio file the workflow raises at once.
GradioBegin(r) ==
    /\ pc[r] = "idle"
    /\ \E m \in Models, g \in BOOLEAN, audio \in BOOLEAN :
          /\ req' = [req EXCEPT ![r] = [kind |-> "gradio", model |-> m, use_gpu |-> g]]
          /\ IF audio
             THEN /\ pc' = [pc EXCEPT ![r] = "core"]
                  /\ core' = [core EXCEPT ![r].state = "running"]
                  /\ UNCHANGED outcome
             ELSE /\ pc' = [pc EXCEPT ![r] = "failed"]
                  /\ outcome' = [outcome EXCEPT ![r] = "gr.Error"]
                  /\ UNCHANGED core
    /\ UNCHANGED <<tmp_in_dir, workdir, disk, nextId, returned>>

\* The file separate_core copies from can be read: api_separate's upload
\* lies in its api_in_ directory.
SourceReadable(r) ==
    req[r].kind = "api" => tmp_in_dir[r] \in DOMAIN disk /\ disk[tmp_in_dir[r]].input

\* CorePrepare with the WorkArea made before the ffmpeg test.
CorePrepareWorkAreaFirst(r) ==
    /\ pc[r] = "core"
    /\ \E ffmpeg \in BOOLEAN, copyOk \in BOOLEAN :
          /\ nextId' = nextId + 1
          /\ IF ~ffmpeg
             THEN /\ disk' = Mkdtemp(disk, WorkArea)
                  /\ core' = [core EXCEPT ![r].state = "raised",
                                          ![r].created = nextId,
                                          ![r].err = "DependencyMissing"]
                  /\ pc' = [pc EXCEPT ![r] = "raised"]
             ELSE IF copyOk /\ SourceReadable(r)
                  THEN /\ disk' = Mkdtemp(disk, [WorkArea EXCEPT !.input = TRUE])
                       /\ core' = [core EXCEPT ![r].ffmpeg = TRUE,
                                               ![r].created = nextId,
                                               ![r].copied = TRUE]
                       /\ pc' = [pc EXCEPT ![r] = "run"]
                  ELSE /\ disk' = Mkdtemp(disk, WorkArea)
                       /\ core' = [core EXCEPT ![r].state = "raised",
                                               ![r].ffmpeg = TRUE,
                                               ![r].created = nextId,
                                               ![r].err = "CopyFailure"]
                       /\ pc' = [pc EXCEPT ![r] = "raised"]
    /\ UNCHANGED <<req, tmp_in_dir, workdir, outcome, returned>>

\* separate_core, lines 115-129: the ffmpeg test, the WorkArea, the copy.
CorePrepare(r) ==
    /\ pc[r] = "core"
    /\ \E ffmpeg \in BOOLEAN, copyOk \in BOOLEAN :
          IF ~ffmpeg
          THEN /\ core' = [core EXCEPT ![r].state = "raised",
                                       ![r].err = "DependencyMissing"]
               /\ pc' = [pc EXCEPT ![r] = "raised"]
               /\ UNCHANGED <<disk, nextId>>
          ELSE /\ nextId' = nextId + 1
               /\ IF copyOk /\ SourceReadable(r)
                  THEN /\ disk' = Mkdtemp(disk, [WorkArea EXCEPT !.input = TRUE])
                       /\ core' = [core EXCEPT ![r].ffmpeg = TRUE,
                                               ![r].created = nextId,
                                               ![r].copied = TRUE]
                       /\ pc' = [pc EXCEPT ![r] = "run"]
                  ELSE /\ disk' = Mkdtemp(disk, WorkArea)
                       /\ core' = [core EXCEPT ![r].state = "raised",
                                               ![r].ffmpeg = TRUE,
                                               ![r].created = nextId,
                                               ![r].err = "CopyFailure"]
                       /\ pc' = [pc EXCEPT ![r] = "raised"]
    /\ UNCHANGED <<req, tmp_in_dir, workdir, outcome, returned>>

\* ModelSupported without the membership test.
ModelUnchecked(model) == TRUE

\* Line 70: model_name in DEMUCS_MODELS
ModelSupported(model) == model \in DEMUCS_MODELS

\* Lines 122-123 and 128: uploads / f"{safe_base}.wav" and outputs, as paths
\* from the WorkArea w; "in_path" stands for the file name f"{safe_base}.wav".
InPath(w) == <<w, "uploads", "in_path">>
OutputsDir(w) == <<w, "separated">>

\* DemucsCmd with the device fixed to cpu.
DemucsCmdCpuOnly(model, use_gpu, w) ==
    [n |-> model, o |-> OutputsDir(w), d |-> "cpu", input |-> InPath(w)]

\* Lines 73-74: the command line of the external tool,
\* ["demucs", "-n", model_name, "-o", str(out_root), "-d", device, str(input_path)].
DemucsCmd(model, use_gpu, w) ==
    [n |-> model, o |-> OutputsDir(w), d |-> IF use_gpu THEN "cuda" ELSE "cpu",
     input |-> InPath(w)]

\* CoreReturn with the archive written beside the WorkArea, not in it.
CoreReturnArchiveOutside(w, dir) ==
    [zip_path |-> <<None, "safe_base.zip">>, workdir |-> w,
     stems_dir |-> OutputsDir(w) \o dir]

\* Lines 131-133: the triple separate_core returns; "safe_base.zip" stands
\* for the archive make_archive writes at workdir / safe_base.
CoreReturn(w, dir) ==
    [zip_path |-> <<w, "safe_base.zip">>, workdir |-> w,
     stems_dir |-> OutputsDir(w) \o dir]

\* separate_core, lines 131-133: run_demucs (validation, the external
\* process, the locator) and zip_dir.
CoreRun(r) ==
    /\ pc[r] = "run"
    /\ LET w == core[r].created
           cmd == DemucsCmd(req[r].model, req[r].use_gpu, w)
           Written(t) == IF w \in DOMAIN disk
                         THEN [disk EXCEPT ![w].tree = t] ELSE disk
       IN  IF ~ModelSupported(req[r].model)
           THEN /\ core' = [core EXCEPT ![r].state = "raised",
                                        ![r].err = "InvalidModel"]
                /\ pc' = [pc EXCEPT ![r] = "raised"]
                /\ UNCHANGED disk
           ELSE \E exitOk \in BOOLEAN :
                  IF ~exitOk
                  THEN /\ core' = [core EXCEPT ![r].state = "raised",
                                               ![r].spawned = @ + 1,
                                               ![r].cmd = cmd,
                                               ![r].err = "ExecutionFailure"]
                       /\ pc' = [pc EXCEPT ![r] = "raised"]
                       /\ UNCHANGED disk
                  ELSE \E t \in DemucsLayouts(req[r].model) :
                       \E out \in LocateOutcomes(t, req[r].model) :
                          IF out.err # "none"
                          THEN /\ core' = [core EXCEPT ![r].state = "raised",
                                                       ![r].spawned = @ + 1,
                                                       ![r].cmd = cmd,
                                                       ![r].inspected = TRUE,
                                                       ![r].err = out.err]
                               /\ pc' = [pc EXCEPT ![r] = "raised"]
                               /\ disk' = Written(t)
                          ELSE /\ core' = [core EXCEPT ![r].state = "returned",
                                                       ![r].spawned = @ + 1,
                                                       ![r].cmd = cmd,
                                                       ![r].inspected = TRUE,
                                                       ![r].stems = out.dir,
                                                       ![r].ret = CoreReturn(w, out.dir)]
                               /\ disk' = IF w \in DOMAIN disk
                                          THEN [Written(t) EXCEPT
                                                  ![w].stems = out.dir,
                                                  ![w].archive = TRUE]
                                          ELSE disk
                               /\ pc' = [pc EXCEPT ![r] = "returned"]
    /\ UNCHANGED <<req, tmp_in_dir, workdir, outcome, nextId, returned>>

\* Nothing handed back.
NoResult == [stems |-> EmptyPaths, zip |-> <<>>]

\* The files the external tool writes into a track directory.
DemucsWavs == {<<"vocals">>, <<"Drums">>, <<"bass">>}

\* list(stems_dir.glob("*.wav")) for the directory at path (from a WorkArea),
\* in any order glob may give.
GlobWavs(d, path) ==
    LET w == path[1]
        rel == SubSeq(path, 3, Len(path))
    IN  IF w \in DOMAIN d /\ rel \in d[w].tree.wavs
        THEN IterOrders(DemucsWavs) ELSE {<<>>}

\* str(w) for the file called name in the directory at path.
FilePath(path, name) == [dir |-> path, name |-> name]

\* Lines 277 and 287: find_stems(stems_dir), each slot a path in stems_dir.
StemsOf(stems_dir, ws) ==
    LET found == find_stems(ws)
    IN  [k \in StemKeySet |->
            IF found[k] = NoStem THEN NoStem ELSE FilePath(stems_dir, found[k])]

\* api_separate, lines 169-182: separate_core returned; the cleanup is handed
\* to the background tasks and the FileResponse is returned.
ApiRespond(r) ==
    /\ pc[r] = "returned"
    /\ req[r].kind = "api"
    /\ workdir' = [workdir EXCEPT ![r] = core[r].ret.workdir]
    /\ returned' = [returned EXCEPT ![r] = [NoResult EXCEPT !.zip = core[r].ret.zip_path]]
    /\ outcome' = [outcome EXCEPT ![r] = "200"]
    /\ pc' = [pc EXCEPT ![r] = "sending"]
    /\ UNCHANGED <<req, tmp_in_dir, core, disk, nextId>>

\* ApiFail without the "except ValueError" clause.
ApiFailAlways500(r) ==
    /\ pc[r] = "raised"
    /\ req[r].kind = "api"
    /\ disk' = IF workdir[r] # None
               THEN safe_rmtree(safe_rmtree(disk, tmp_in_dir[r]), workdir[r])
               ELSE safe_rmtree(disk, tmp_in_dir[r])
    /\ outcome' = [outcome EXCEPT ![r] = "500"]
    /\ pc' = [pc EXCEPT ![r] = "failed"]
    /\ UNCHANGED <<req, tmp_in_dir, workdir, core, nextId, returned>>

\* ApiFail without safe_rmtree(tmp_in_dir).
ApiFailKeepsUpload(r) ==
    /\ pc[r] = "raised"
    /\ req[r].kind = "api"
    /\ disk' = IF workdir[r] # None THEN safe_rmtree(disk, workdir[r]) ELSE disk
    /\ outcome' = [outcome EXCEPT
                     ![r] = IF ExceptionClass(core[r].err) = "ValueError"
                            THEN "400" ELSE "500"]
    /\ pc' = [pc EXCEPT ![r] = "failed"]
    /\ UNCHANGED <<req, tmp_in_dir, workdir, core, returned, nextId>>

\* api_separate, lines 183-192: separate_core raised, so workdir was never
\* assigned; ValueError answers 400, every other exception 500.
ApiFail(r) ==
    /\ pc[r] = "raised"
    /\ req[r].kind = "api"
    /\ disk' = IF workdir[r] # None
               THEN safe_rmtree(safe_rmtree(disk, tmp_in_dir[r]), workdir[r])
               ELSE safe_rmtree(disk, tmp_in_dir[r])
    /\ outcome' = [outcome EXCEPT
                     ![r] = IF ExceptionClass(core[r].err) = "ValueError"
                            THEN "400" ELSE "500"]
    /\ pc' = [pc EXCEPT ![r] = "failed"]
    /\ UNCHANGED <<req, tmp_in_dir, workdir, core, nextId, returned>>

\* The server finished sending the FileResponse.
ApiSent(r) ==
    /\ pc[r] = "sending"
    /\ pc' = [pc EXCEPT ![r] = "sent"]
    /\ UNCHANGED <<req, tmp_in_dir, workdir, core, outcome, disk, nextId, returned>>

\* ApiCleanup without safe_rmtree(workdir).
ApiCleanupUploadOnly(r) ==
    /\ pc[r] = "sent"
    /\ disk' = safe_rmtree(disk, tmp_in_dir[r])
    /\ pc' = [pc EXCEPT ![r] = "done"]
    /\ UNCHANGED <<req, tmp_in_dir, workdir, core, outcome, nextId, returned>>

\* _cleanup, lines 171-173, run by the background tasks once the response
\* has been sent.
ApiCleanup(r) ==
    /\ pc[r] = "sent"
    /\ disk' = safe_rmtree(safe_rmtree(disk, workdir[r]), tmp_in_dir[r])
    /\ pc' = [pc EXCEPT ![r] = "done"]
    /\ UNCHANGED <<req, tmp_in_dir, workdir, core, outcome, nextId, returned>>

\* gradio_workflow, lines 276-287: separate_core returned; the stems are
\* mapped, the 120 s timer is started and the paths are returned.
GradioFinish(r) ==
    /\ pc[r] = "returned"
    /\ req[r].kind = "gradio"
    /\ workdir' = [workdir EXCEPT ![r] = core[r].ret.workdir]
    /\ \E ws \in GlobWavs(disk, core[r].ret.stems_dir) :
          returned' = [returned EXCEPT
                         ![r] = [stems |-> StemsOf(core[r].ret.stems_dir, ws),
                                 zip |-> core[r].ret.zip_path]]
    /\ outcome' = [outcome EXCEPT ![r] = "returned"]
    /\ pc' = [pc EXCEPT ![r] = "waiting"]
    /\ UNCHANGED <<req, tmp_in_dir, core, disk, nextId>>

\* gradio_workflow, lines 278-279: any exception becomes gr.Error; nothing
\* is deleted.
GradioFail(r) ==
    /\ pc[r] = "raised"
    /\ req[r].kind = "gradio"
    /\ outcome' = [outcome EXCEPT ![r] = "gr.Error"]
    /\ pc' = [pc EXCEPT ![r] = "failed"]
    /\ UNCHANGED <<req, tmp_in_dir, workdir, core, disk, nextId, returned>>

\* TimerFire deleting every demucs_work_ directory instead of its own.
TimerFireSweep(r) ==
    /\ pc[r] = "waiting"
    /\ disk' = [x \in {y \in DOMAIN disk : disk[y].prefix # "demucs_work_"} |-> disk[x]]
    /\ pc' = [pc EXCEPT ![r] = "done"]
    /\ UNCHANGED <<req, tmp_in_dir, workdir, core, outcome, returned, nextId>>

\* _cleanup_later, lines 282-284, when the timer fires.
TimerFire(r) ==
    /\ pc[r] = "waiting"
    /\ disk' = safe_rmtree(disk, workdir[r])
    /\ pc' = [pc EXCEPT ![r] = "done"]
    /\ UNCHANGED <<req, tmp_in_dir, workdir, core, outcome, nextId, returned>>

PipeInit ==
    /\ pc = [r \in Requests |-> "idle"]
    /\ req = [r \in Requests |-> NoRequest]
    /\ tmp_in_dir = [r \in Requests |-> None]
    /\ workdir = [r \in Requests |-> None]
    /\ core = [r \in Requests |-> CoreIdle]
    /\ outcome = [r \in Requests |-> "pending"]
    /\ returned = [r \in Requests |-> NoResult]
    /\ disk = <<>>
    /\ nextId = 1

PipeIdle ==
    /\ pc = [r \in Requests |-> "off"]
    /\ req = [r \in Requests |-> NoRequest]
    /\ tmp_in_dir = [r \in Requests |-> None]
    /\ workdir = [r \in Requests |-> None]
    /\ core = [r \in Requests |-> CoreIdle]
    /\ outcome = [r \in Requests |-> "pending"]
    /\ returned = [r \in Requests |-> NoResult]
    /\ disk = <<>>
    /\ nextId = 1

(***************************************************************************)
(* Cleanup: safe_rmtree (lines 135-139) called on arbitrary paths.         *)
(***************************************************************************)
\* Most paths drawn, and most calls made in a row.
MaxPaths == 3
MaxCalls == 2
RmPaths == 1..MaxPaths

\* The trees that may exist: any subset of the paths, each deletable or not.
RmDisks == UNION {[S -> [locked : BOOLEAN]] : S \in SUBSET RmPaths}

\* shutil.rmtree(path, ignore_errors): a missing path and a tree that cannot
\* be removed are errors, reported only when ignore_errors is off.
ShutilRmtree(d, path, ignore_errors) ==
    IF path \notin DOMAIN d
    THEN [disk |-> d,
          raised |-> IF ignore_errors THEN "none" ELSE "FileNotFoundError"]
    ELSE IF d[path].locked
         THEN [disk |-> d,
               raised |-> IF ignore_errors THEN "none" ELSE "PermissionError"]
         ELSE [disk |-> safe_rmtree(d, path), raised |-> "none"]

\* The classes "except Exception" catches.
CaughtByExceptException == {"FileNotFoundError", "PermissionError"}

\* Lines 136-139: try: shutil.rmtree(path, ignore_errors=True)
\*                except Exception: pass
SafeRmtreeCall(d, path) ==
    LET res == ShutilRmtree(d, path, TRUE)
    IN  [disk |-> res.disk,
         raised |-> IF res.raised \in CaughtByExceptException
                    THEN "none" ELSE res.raised]

RmInit ==
    /\ rmDisk \in RmDisks
    /\ rmCalls = 0
    /\ rmPath = None
    /\ rmBefore = rmDisk
    /\ rmRaised = "none"
    /\ rmRemoved = {}

RmIdle ==
    /\ rmDisk = <<>>
    /\ rmCalls = 0
    /\ rmPath = None
    /\ rmBefore = <<>>
    /\ rmRaised = "none"
    /\ rmRemoved = {}

\* One call safe_rmtree(path), on a tree, a missing path or a path an
\* earlier call removed.
SafeRmtree ==
    /\ rmCalls < MaxCalls
    /\ \E path \in RmPaths :
          LET res == SafeRmtreeCall(rmDisk, path)
          IN  /\ rmPath' = path
              /\ rmBefore' = rmDisk
              /\ rmDisk' = res.disk
              /\ rmRaised' = res.raised
    /\ rmCalls' = rmCalls + 1
    /\ rmRemoved' = IF rmCalls > 0 /\ rmPath \in DOMAIN rmBefore
                        /\ rmPath \notin DOMAIN rmDisk
                     THEN rmRemoved \cup {rmPath} ELSE rmRemoved

\* ---- specifications ----
Init == PipeInit /\ SlugIdle /\ LocIdle /\ StemIdle /\ RmIdle
Next ==
    \/ \E r \in Requests : ApiBegin(r) /\ UNCHANGED <<slugVars, locVars, stemVars, rmVars>>
    \/ \E r \in Requests : GradioBegin(r) /\ UNCHANGED <<slugVars, locVars, stemVars, rmVars>>
    \/ \E r \in Requests : CorePrepare(r) /\ UNCHANGED <<slugVars, locVars, stemVars, rmVars>>
    \/ \E r \in Requests : CoreRun(r) /\ UNCHANGED <<slugVars, locVars, stemVars, rmVars>>
    \/ \E r \in Requests : ApiRespond(r) /\ UNCHANGED <<slugVars, locVars, stemVars, rmVars>>
    \/ \E r \in Requests : ApiFail(r) /\ UNCHANGED <<slugVars, locVars, stemVars, rmVars>>
    \/ \E r \in Requests : ApiSent(r) /\ UNCHANGED <<slugVars, locVars, stemVars, rmVars>>
    \/ \E r \in Requests : ApiCleanup(r) /\ UNCHANGED <<slugVars, locVars, stemVars, rmVars>>
    \/ \E r \in Requests : GradioFinish(r) /\ UNCHANGED <<slugVars, locVars, stemVars, rmVars>>
    \/ \E r \in Requests : GradioFail(r) /\ UNCHANGED <<slugVars, locVars, stemVars, rmVars>>
    \/ \E r \in Requests : TimerFire(r) /\ UNCHANGED <<slugVars, locVars, stemVars, rmVars>>
Spec == Init /\ [][Next]_vars

\* The server sends every response it was given and then runs the
\* background tasks; a started timer fires.
Fairness ==
    \A r \in Requests :
        /\ WF_pipeVars(ApiSent(r))
        /\ WF_pipeVars(ApiCleanup(r))
        /\ WF_pipeVars(TimerFire(r))
FairSpec == Spec /\ Fairness

InitSlug == SlugInit /\ LocIdle /\ StemIdle /\ PipeIdle /\ RmIdle
NextSlug == Slugify /\ UNCHANGED <<locVars, stemVars, pipeVars, rmVars>>
SpecSlug == InitSlug /\ [][NextSlug]_vars

InitLocate == LocInit /\ SlugIdle /\ StemIdle /\ PipeIdle /\ RmIdle
NextLocate == LocateOutput /\ UNCHANGED <<slugVars, stemVars, pipeVars, rmVars>>
SpecLocate == InitLocate /\ [][NextLocate]_vars

InitStems == StemInit /\ SlugIdle /\ LocIdle /\ PipeIdle /\ RmIdle
NextStems ==
    \/ StemNameMatch /\ UNCHANGED <<slugVars, locVars, pipeVars, rmVars>>
    \/ StemReturn /\ UNCHANGED <<slugVars, locVars, pipeVars, rmVars>>
SpecStems == InitStems /\ [][NextStems]_vars

InitLocateMap == LocMapInit /\ SlugIdle /\ PipeIdle /\ RmIdle
NextLocateMap ==
    \/ LocateOutput /\ UNCHANGED <<slugVars, stemVars, pipeVars, rmVars>>
    \/ MapLocated /\ UNCHANGED <<slugVars, pipeVars, rmVars>>
SpecLocateMap == InitLocateMap /\ [][NextLocateMap]_vars

InitCleanup == RmInit /\ SlugIdle /\ LocIdle /\ StemIdle /\ PipeIdle
NextCleanup == SafeRmtree /\ UNCHANGED <<slugVars, locVars, stemVars, pipeVars>>
SpecCleanup == InitCleanup /\ [][NextCleanup]_vars

(***************************************************************************)
(* Claims about the request handlers (Spec, FairSpec).                     *)
(***************************************************************************)
Finished(r) == pc[r] \in {"done", "failed"}

CoreOver(r) == core[r].state \in {"returned", "raised"}

WorkAreaExists(r) == core[r].created # None /\ core[r].created \in DOMAIN disk

\* C1: every WorkArea separate_core created is deleted by the time the
\* request is over (handler finished, scheduled cleanup run), on success and
\* on every failure after creation, for both callers.
C1_WorkAreaDeletedOnEveryPath ==
    \A r \in Requests : Finished(r) => ~WorkAreaExists(r)

\* C2: on the server path the background cleanup runs only after the
\* response has been sent, and once the response of a successful request has
\* been sent the WorkArea eventually no longer exists.
C2_CleanupAfterResponseSent ==
    /\ [][\A r \in Requests :
            (req[r].kind = "api" /\ WorkAreaExists(r)
                /\ core'[r].created \notin DOMAIN disk')
                => pc[r] = "sent"]_vars
    /\ \A r \in Requests :
            (pc[r] = "sent") ~> (pc[r] = "done" /\ ~WorkAreaExists(r))

\* C2 witness: a successful server request whose response was sent and whose
\* WorkArea is gone.
C2_Witness ==
    \E r \in Requests :
        /\ req[r].kind = "api"
        /\ outcome[r] = "200"
        /\ pc[r] = "done"
        /\ core[r].created # None
        /\ ~WorkAreaExists(r)

\* C3 as stated: for every unsupported model identifier separate_core fails
\* with InvalidModel, without spawning the external process and without
\* inspecting the output directory.
C3_UnsupportedModelRaisesInvalidModel ==
    \A r \in Requests :
        (CoreOver(r) /\ req[r].model \notin DEMUCS_MODELS) =>
            /\ core[r].err = "InvalidModel"
            /\ core[r].spawned = 0
            /\ ~core[r].inspected

\* C3 amended: for every unsupported model identifier separate_core never
\* spawns the external process and never inspects the output directory, and
\* it fails: with InvalidModel when ffmpeg was found and the input was
\* copied, and before that with DependencyMissing or with the copy error.
C3_UnsupportedModelNeverSpawns ==
    \A r \in Requests :
        req[r].model \notin DEMUCS_MODELS =>
            /\ core[r].spawned = 0
            /\ ~core[r].inspected
            /\ core[r].state # "returned"
            /\ core[r].state = "raised" =>
                  /\ core[r].err \in {"InvalidModel", "DependencyMissing", "CopyFailure"}
                  /\ core[r].err = "InvalidModel" <=> (core[r].ffmpeg /\ core[r].copied)
                  /\ core[r].err = "DependencyMissing" <=> ~core[r].ffmpeg

\* C3 witness: separate_core raised InvalidModel for an unsupported model.
C3_Witness ==
    \E r \in Requests :
        /\ req[r].model \notin DEMUCS_MODELS
        /\ core[r].state = "raised"
        /\ core[r].err = "InvalidModel"

\* C4: when ffmpeg is not found, separate_core fails with DependencyMissing
\* before it creates the WorkArea or any other temporary directory, before
\* it copies the input and before it invokes the external tool; the step
\* leaves the filesystem unchanged.
C4_DependencyMissingBeforeAnyDirectory ==
    [][\A r \in Requests :
          (core[r].state = "running" /\ core'[r].state = "raised" /\ ~core'[r].ffmpeg)
              => /\ core'[r].err = "DependencyMissing"
                 /\ core'[r].created = None
                 /\ ~core'[r].copied
                 /\ core'[r].spawned = 0
                 /\ disk' = disk
                 /\ nextId' = nextId]_vars

\* C4 witness: separate_core raised because ffmpeg was not found.
C4_Witness ==
    \E r \in Requests :
        /\ core[r].state = "raised"
        /\ ~core[r].ffmpeg
        /\ core[r].err = "DependencyMissing"

Answered(r) == req[r].kind = "api" /\ outcome[r] # "pending"

\* C5 as stated: POST /api/separate answers 400 for every request with an
\* unsupported model identifier and 500 for every other pipeline failure; no
\* supported identifier yields 400 and no unsupported one yields 500.
C5_Status400IffUnsupportedModel ==
    \A r \in Requests :
        Answered(r) =>
            /\ req[r].model \notin DEMUCS_MODELS => outcome[r] = "400"
            /\ (req[r].model \in DEMUCS_MODELS /\ core[r].state = "raised") =>
                  outcome[r] = "500"
            /\ outcome[r] = "400" => req[r].model \notin DEMUCS_MODELS
            /\ outcome[r] = "500" => req[r].model \in DEMUCS_MODELS

\* C5 amended: POST /api/separate answers 400 exactly when the pipeline
\* failed with InvalidModel, which takes an unsupported model identifier,
\* ffmpeg found and the input copied; it answers 500 for every other
\* pipeline failure, a missing dependency or a failed copy of a request with
\* an unsupported identifier included; no supported identifier yields 400.
C5_Status400IffInvalidModelRaised ==
    \A r \in Requests :
        Answered(r) =>
            /\ outcome[r] \in {"200", "400", "500"}
            /\ outcome[r] = "400" <=> (core[r].state = "raised" /\ core[r].err = "InvalidModel")
            /\ outcome[r] = "500" <=> (core[r].state = "raised" /\ core[r].err # "InvalidModel")
            /\ outcome[r] = "400" => req[r].model \notin DEMUCS_MODELS
            /\ (outcome[r] = "500" /\ req[r].model \notin DEMUCS_MODELS) =>
                  core[r].err \in {"DependencyMissing", "CopyFailure"}
            /\ outcome[r] = "200" => req[r].model \in DEMUCS_MODELS

\* C5 witness: a request with an unsupported model identifier answered 500.
C5_Witness ==
    \E r \in Requests :
        /\ Answered(r)
        /\ req[r].model \notin DEMUCS_MODELS
        /\ outcome[r] = "500"

(***************************************************************************)
(* Claims about the Input Normalizer (SpecSlug).                           *)
(***************************************************************************)
AsciiSlugChars == {"a", "b", "7", "-", "_", "i", "n", "p", "u", "t"}

\* C6: for every filename slugify_basename returns a non-empty string of
\* ASCII lowercase letters, digits, hyphens and underscores only, with no
\* leading or trailing hyphen or underscore, and returns the default token
\* "input" exactly when normalization empties the string.
C6_SlugAsciiSafe ==
    slugPc = "ret" =>
        /\ slugOut # <<>>
        /\ \A i \in DOMAIN slugOut : slugOut[i] \in AsciiSlugChars
        /\ slugOut[1] \notin {"-", "_"}
        /\ slugOut[Len(slugOut)] \notin {"-", "_"}
        /\ (slugOut = DefaultSlug <=> SlugBase(slugName) = <<>>)

(***************************************************************************)
(* Claims about the Output Locator (SpecLocate).                           *)
(***************************************************************************)
\* The immediate subdirectories of the resolved model directory that
\* directly hold a .wav file.
QualifyingChildren ==
    {c \in locTree.dirs :
        /\ Len(c) = Len(locOut.modelDir) + 1
        /\ SubSeq(c, 1, Len(locOut.modelDir)) = locOut.modelDir
        /\ c \in locTree.wavs}

\* The directories at or below the resolved model directory that directly
\* hold a .wav file.
WavDirsUnderModelDir ==
    {d \in locTree.wavs :
        /\ Len(d) >= Len(locOut.modelDir)
        /\ SubSeq(d, 1, Len(locOut.modelDir)) = locOut.modelDir}

\* C7: within the resolved model directory the locator returns an immediate
\* subdirectory that directly holds a .wav file whenever one exists, even if
\* the model directory holds .wav files itself; otherwise the model directory
\* when it directly holds one; otherwise the parent of a .wav file found
\* deeper below it.
C7_LocatorPriority ==
    (locPc = "ret" /\ locOut.resolved) =>
        /\ QualifyingChildren # {} =>
              locOut.err = "none" /\ locOut.dir \in QualifyingChildren
        /\ (QualifyingChildren = {} /\ locOut.modelDir \in locTree.wavs) =>
              locOut.err = "none" /\ locOut.dir = locOut.modelDir
        /\ (QualifyingChildren = {} /\ locOut.modelDir \notin locTree.wavs
              /\ locOut.err = "none") =>
              /\ locOut.dir \in WavDirsUnderModelDir
              /\ Len(locOut.dir) > Len(locOut.modelDir) + 1

\* C7 witness: a subdirectory was returned although the model directory
\* directly holds .wav files too.
C7_Witness ==
    /\ locPc = "ret"
    /\ locOut.resolved
    /\ locOut.err = "none"
    /\ locOut.modelDir \in locTree.wavs
    /\ locOut.dir # locOut.modelDir

TopDirs == {d \in locTree.dirs : Len(d) = 1}

\* C8 as stated: the locator fails with OutputNotFound exactly when no .wav
\* file exists anywhere under the output root.
C8_FailsOnlyWithoutAnyWav ==
    locPc = "ret" => (locOut.err = "OutputNotFound" <=> locTree.wavs = {})

\* C8 amended: the locator fails with OutputNotFound exactly when
\* out_root/<model> is absent and out_root has no subdirectory, or no .wav
\* file exists at or below the resolved model directory, which is
\* out_root/<model> when that exists and otherwise a subdirectory found
\* directly under out_root.
C8_FailsOnlyWithoutWavInModelDir ==
    locPc = "ret" =>
        /\ locOut.resolved <=> (<<locModel>> \in locTree.dirs \/ TopDirs # {})
        /\ <<locModel>> \in locTree.dirs => locOut.modelDir = <<locModel>>
        /\ (locOut.resolved /\ <<locModel>> \notin locTree.dirs) =>
              locOut.modelDir \in TopDirs
        /\ locOut.err = "OutputNotFound" <=>
              (~locOut.resolved \/ WavDirsUnderModelDir = {})

\* C8 witness: OutputNotFound although a .wav file exists under the output
\* root, outside the model directory resolved by the fallback.
C8_Witness ==
    /\ locPc = "ret"
    /\ locOut.resolved
    /\ <<locModel>> \notin locTree.dirs
    /\ locOut.err = "OutputNotFound"
    /\ locTree.wavs # {}

(***************************************************************************)
(* Claims about the Stem Mapper (SpecStems).                               *)
(***************************************************************************)
ListedWavs == {stemWavs[i] : i \in DOMAIN stemWavs}

\* The keys whose slot holds file w after the name-matching loop.
SlotsOf(w) == {k \in StemKeySet : stemMatched[k] = w}

\* The canonical keys that occur in the lowercased base name w, as positions
\* of STEM_KEYS.
KeyPositionsIn(w) ==
    {i \in DOMAIN STEM_KEYS :
        \E j \in DOMAIN w : (IF w[j] = "Drums" THEN "drums" ELSE w[j]) = STEM_KEYS[i]}

\* C9 as stated: in the name-matching pass each file is assigned to at most
\* one key slot, the first canonical key that occurs in its lowercased name.
C9_OneSlotPerFile ==
    stemPc \in {"matched", "ret"} =>
        \A w \in ListedWavs :
            /\ Cardinality(SlotsOf(w)) <= 1
            /\ \A k \in SlotsOf(w) :
                  \E i \in KeyPositionsIn(w) :
                      STEM_KEYS[i] = k /\ \A j \in KeyPositionsIn(w) : i <= j

\* C9 amended: in the name-matching pass each file is assigned to every key
\* slot whose canonical key occurs in its lowercased base name; a slot ends
\* up holding the last listed file whose name contains its key, and is null
\* when no name contains it.
C9_EverySlotOfEveryKeyFound ==
    stemPc \in {"matched", "ret"} =>
        \A i \in DOMAIN STEM_KEYS :
            LET holders == {n \in DOMAIN stemWavs : i \in KeyPositionsIn(stemWavs[n])}
            IN  IF holders = {} THEN stemMatched[STEM_KEYS[i]] = NoStem
                ELSE \E n \in holders :
                        /\ \A m \in holders : m <= n
                        /\ stemMatched[STEM_KEYS[i]] = stemWavs[n]

\* C9 witness: one file whose name contains two canonical keys fills both
\* slots.
C9_Witness ==
    /\ stemPc = "matched"
    /\ \E w \in ListedWavs : Cardinality(SlotsOf(w)) >= 2

\* The number of listed files that sort strictly before w.
SmallerCount(w) == Cardinality({v \in ListedWavs : NameLess(v, w)})

\* C10: the ordinal fallback is used if and only if files exist and the
\* name-matching pass left all four keys null; then the i-th file in sorted
\* order goes to the i-th key, keys beyond the number of files stay null and
\* files beyond the fourth are ignored.  Otherwise the result is what the
\* name-matching pass left, and with no files all four keys are null.
C10_OrdinalFallback ==
    stemPc = "ret" =>
        IF stemWavs # <<>> /\ \A k \in StemKeySet : stemMatched[k] = NoStem
        THEN \A i \in DOMAIN STEM_KEYS :
                IF i <= Len(stemWavs)
                THEN /\ stemPaths[STEM_KEYS[i]] \in ListedWavs
                     /\ SmallerCount(stemPaths[STEM_KEYS[i]]) = i - 1
                ELSE stemPaths[STEM_KEYS[i]] = NoStem
        ELSE /\ stemPaths = stemMatched
             /\ stemWavs = <<>> => \A k \in StemKeySet : stemPaths[k] = NoStem

\* C10 witness: five files, none matched by name; the four smallest fill the
\* four keys.
C10_Witness ==
    /\ stemPc = "ret"
    /\ Len(stemWavs) = 5
    /\ \A k \in StemKeySet : stemMatched[k] = NoStem
    /\ \A k \in StemKeySet : stemPaths[k] # NoStem

(***************************************************************************)
(* Claims about Cleanup (SpecCleanup).                                     *)
(***************************************************************************)
\* C13: safe_rmtree never raises, whether the path is an existing tree, a
\* path that does not exist or a path an earlier call already removed; after
\* it returns on a deletable existing tree that tree no longer exists and
\* the other trees are as before, and a call on a path that does not exist
\* changes nothing.
C13_CleanupNeverRaises ==
    rmCalls > 0 =>
        /\ rmRaised = "none"
        /\ rmPath \notin DOMAIN rmBefore => rmDisk = rmBefore
        /\ (rmPath \in DOMAIN rmBefore /\ ~rmBefore[rmPath].locked) =>
               /\ rmPath \notin DOMAIN rmDisk
               /\ DOMAIN rmDisk = DOMAIN rmBefore \ {rmPath}
               /\ \A x \in DOMAIN rmDisk : rmDisk[x] = rmBefore[x]

\* A second call on the path the first call removed, next to a tree that
\* still exists.
C13_Witness ==
    /\ rmCalls = MaxCalls
    /\ rmPath \in rmRemoved
    /\ rmPath \notin DOMAIN rmBefore
    /\ rmDisk # <<>>
    /\ rmRaised = "none"

(***************************************************************************)
(* Further claims about the request handlers (Spec, FairSpec).             *)
(***************************************************************************)
\* C14: the command run_demucs executes names the request's (supported)
\* model after -n, the WorkArea's output root after -o, cpu or cuda after -d
\* according to use_gpu, and the normalized input path as its positional
\* argument; a run that reaches the external tool spawns exactly one process,
\* and no run spawns a second one, not even after a failed execution.
C14_CommandAndSingleSpawn ==
    \A r \in Requests :
        /\ core[r].spawned <= 1
        /\ core[r].spawned = 0 => core[r].cmd = <<>>
        /\ core[r].spawned = 1 =>
              /\ req[r].model \in DEMUCS_MODELS
              /\ core[r].cmd.n = req[r].model
              /\ core[r].cmd.o = <<core[r].created, "separated">>
              /\ core[r].cmd.input = <<core[r].created, "uploads", "in_path">>
              /\ core[r].cmd.d = (IF req[r].use_gpu THEN "cuda" ELSE "cpu")
        /\ (CoreOver(r) /\ core[r].copied /\ req[r].model \in DEMUCS_MODELS) =>
              core[r].spawned = 1

\* One run on cuda whose execution failed and was answered without a second
\* process, another on cpu with a different model that succeeded.
C14_Witness ==
    \E r, q \in Requests :
        /\ Finished(r)
        /\ req[r].use_gpu /\ req[r].model = "mdx"
        /\ core[r].err = "ExecutionFailure" /\ core[r].spawned = 1
        /\ core[r].cmd.d = "cuda" /\ core[r].cmd.n = "mdx"
        /\ ~req[q].use_gpu /\ req[q].model = "htdemucs_ft"
        /\ core[q].state = "returned" /\ core[q].spawned = 1
        /\ core[q].cmd.d = "cpu" /\ core[q].cmd.n = "htdemucs_ft"

\* The WorkArea w exists and holds the archive and the stems directory that
\* separate_core returned for r.
ReturnedInside(r, w) ==
    LET ret == core[r].ret
    IN  /\ w = core[r].created
        /\ w \in DOMAIN disk
        /\ disk[w].prefix = "demucs_work_"
        /\ ret.zip_path[1] = w
        /\ disk[w].archive
        /\ IsPrefix(OutputsDir(w), ret.stems_dir)
        /\ SubSeq(ret.stems_dir, 3, Len(ret.stems_dir)) \in disk[w].tree.dirs

\* C11: when separate_core has returned, the WorkArea it returned exists and
\* the returned archive and stems directory exist inside it; separate_core
\* never deletes the WorkArea it created; on the gradio path the WorkArea
\* is still there when the workflow has returned its paths, and it is deleted
\* only by the step in which the 120 s timer fires.
C11_ResultsOutliveTheCall ==
    /\ [](\A r \in Requests :
            /\ pc[r] = "returned" => ReturnedInside(r, core[r].ret.workdir)
            /\ (pc[r] \in {"run", "raised", "returned"} /\ core[r].created # None)
                  => core[r].created \in DOMAIN disk
            /\ (req[r].kind = "gradio" /\ pc[r] = "waiting") =>
                  /\ ReturnedInside(r, workdir[r])
                  /\ returned[r].zip = core[r].ret.zip_path)
    /\ [][\A r \in Requests :
            (/\ req[r].kind = "gradio"
             /\ core[r].created # None
             /\ core[r].created \in DOMAIN disk
             /\ core[r].created \notin DOMAIN disk')
            => pc[r] = "waiting" /\ pc'[r] = "done"]_vars

\* A gradio run handed back its stems and archive, the timer has not fired
\* yet and the WorkArea is on disk; another gradio run's timer has fired.
C11_Witness ==
    \E r, q \in Requests :
        /\ req[r].kind = "gradio" /\ pc[r] = "waiting"
        /\ workdir[r] \in DOMAIN disk
        /\ returned[r].stems["vocals"] # NoStem
        /\ req[q].kind = "gradio" /\ pc[q] = "done"
        /\ workdir[q] \notin DOMAIN disk

\* The temporary directories run r created.
OwnDirs(r) == {core[r].created, tmp_in_dir[r]} \ {None}

\* C12: under every interleaving of api and gradio runs, each run has a
\* WorkArea (and upload directory) no other run has; the stems and the archive
\* a run hands back lie in that run's own stems directory and WorkArea; and a
\* step that deletes or alters a run's directory is a step of that same run,
\* so no other run's immediate, background or timed cleanup touches it.
C12_RunsDoNotInterfere ==
    /\ [](\A r \in Requests :
            /\ \A q \in Requests \ {r} : OwnDirs(r) \cap OwnDirs(q) = {}
            /\ core[r].created # None => core[r].created # tmp_in_dir[r]
            /\ outcome[r] \in {"200", "returned"} =>
                  /\ returned[r].zip[1] = core[r].created
                  /\ \A k \in StemKeySet :
                        returned[r].stems[k] # NoStem =>
                           /\ returned[r].stems[k].dir[1] = core[r].created
                           /\ returned[r].stems[k].dir
                                 = OutputsDir(core[r].created) \o core[r].stems)
    /\ [][\A r \in Requests : \A x \in OwnDirs(r) :
            (x \in DOMAIN disk /\ (x \notin DOMAIN disk' \/ disk'[x] # disk[x]))
            => pc'[r] # pc[r] /\ \A q \in Requests \ {r} : pc'[q] = pc[q]]_vars

\* Two runs, one through the server and one interactive, had their WorkAreas
\* on disk together; the interactive one's timer has fired and the
\* other's WorkArea and archive are untouched.
C12_Witness ==
    \E r, q \in Requests :
        /\ req[r].kind = "gradio" /\ pc[r] = "done"
        /\ req[q].kind = "api" /\ pc[q] = "sending"
        /\ core[q].created < core[r].created
        /\ core[r].created \notin DOMAIN disk
        /\ core[q].created \in DOMAIN disk
        /\ disk[core[q].created].archive
        /\ returned[q].zip[1] = core[q].created

\* The api_in_ directory of request r is on disk.
UploadExists(r) == tmp_in_dir[r] # None /\ tmp_in_dir[r] \in DOMAIN disk

\* C15: the api_in_ directory api_separate creates is deleted on every
\* outcome: it is gone as soon as the request was answered 400 or 500, and
\* once a request was answered 200 the background cleanup eventually removes
\* it; it is on disk, with the uploaded bytes, all the time separate_core
\* runs, and the only steps that remove it are the except clauses and the
\* background cleanup.
C15_UploadDirDeletedOnEveryOutcome ==
    /\ [](\A r \in Requests :
            req[r].kind = "api" =>
               /\ pc[r] \in {"core", "run", "raised", "returned"} =>
                     UploadExists(r) /\ disk[tmp_in_dir[r]].input
               /\ outcome[r] \in {"400", "500"} => ~UploadExists(r)
               /\ pc[r] = "done" => ~UploadExists(r))
    /\ [][\A r \in Requests :
            (UploadExists(r) /\ tmp_in_dir[r] \notin DOMAIN disk')
            => \/ pc[r] = "raised" /\ pc'[r] = "failed"
               \/ pc[r] = "sent" /\ pc'[r] = "done"]_vars
    /\ \A r \in Requests :
          (req[r].kind = "api" /\ outcome[r] # "pending") ~> ~UploadExists(r)

\* One request was answered 400 after its input had been copied, another was
\* answered 200 and cleaned up in the background; both upload directories
\* are gone.
C15_Witness ==
    \E r, q \in Requests :
        /\ req[r].kind = "api" /\ outcome[r] = "400" /\ core[r].copied
        /\ tmp_in_dir[r] # None /\ ~UploadExists(r)
        /\ req[q].kind = "api" /\ outcome[q] = "200" /\ pc[q] = "done"
        /\ tmp_in_dir[q] # None /\ ~UploadExists(q)

(***************************************************************************)
(* Claims about the Output Locator followed by the Stem Mapper             *)
(* (SpecLocateMap).                                                        *)
(***************************************************************************)
\* C16: whenever the locating part of run_demucs returns a directory, that
\* directory is the resolved model directory (a subdirectory of the output
\* root) or lies below it, and it directly holds at least one .wav file, so
\* find_stems called on it returns at least one key with a path.
C16_LocatedDirNeverMapsToAllNull ==
    /\ (locPc = "ret" /\ locOut.err = "none") =>
          /\ locOut.modelDir \in SubDirs(locTree, OutRoot)
          /\ IsPrefix(locOut.modelDir, locOut.dir)
          /\ locOut.dir \in locTree.dirs
          /\ HasWav(locTree, locOut.dir)
    /\ stemPc = "ret" =>
          /\ stemWavs # <<>>
          /\ \E k \in StemKeySet : stemPaths[k] # NoStem
          /\ \A k \in StemKeySet :
                stemPaths[k] # NoStem => \E i \in DOMAIN stemWavs : stemWavs[i] = stemPaths[k]

\* The locator found the files two levels below the model directory, none of
\* them named after a key, and the Stem Mapper still filled a slot.
C16_Witness ==
    /\ stemPc = "ret"
    /\ Len(locOut.dir) = Len(locOut.modelDir) + 2
    /\ stemMatched = EmptyPaths
    /\ stemPaths["vocals"] # NoStem
    /\ stemPaths["bass"] = NoStem

====
